---- MODULE Spec2Model ----
(***************************************************************************)
(* gCite backend: the search -> filter -> rank -> format pipeline of       *)
(* api/routes.py and the three agents of agents/*.py.                      *)
(*                                                                         *)
(* Conventions                                                             *)
(*   - a Python dict is a function from its keys to its values; a missing  *)
(*     key is a key outside DOMAIN (Get is dict.get, Put is d[k] = v);     *)
(*   - a float score is an integer number of hundredths (0.7 is 70);       *)
(*   - a Python value whose only relevant property is its type is the      *)
(*     record [py |-> <type name>] (None is [py |-> "None"]);              *)
(*   - a text is the sequence of its lines, a line is a Line record.       *)
(***************************************************************************)
EXTENDS Integers, Sequences, FiniteSets, TLC

VARIABLES
    op,               \* entry point under analysis: "generate", "filter", "rank", "format", "basic", "search"
    pc,               \* control position inside the entry point
    api_key,          \* settings.GOOGLE_GENAI_API_KEY ("" when not configured)
    enabled,          \* BaseAgent.enabled of the filter / rank / format agent
    request,          \* SearchRequest fields (the direct calls use their own subset)
    raw_results,      \* what CiteAssistClient.search returned
    chunks_data,      \* the list handed to FilterAgent.filter
    evaluations,      \* filter: one slot per task of asyncio.gather
    responses,        \* filter: what generate_content returned to each task
    filtered_data,    \* the list FilterAgent.filter returned (then truncated)
    rank_input,       \* the list handed to RankAgent.rank
    rank_response,    \* rank: what generate_content returned
    ranked_data,      \* the list RankAgent.rank returned
    chunks,           \* routes: the Chunk objects; format: the list handed to format
    format_response,  \* format: what generate_content returned
    formatted_output, \* the text FormatAgent.format / _format_basic returned
    raised,           \* the exception that escaped the running call ("" when none)
    response,         \* the HTTP outcome of search_citations
    calls,            \* remote calls to the generative service, per agent
    attempts,         \* CiteAssistClient.search: the outcome of each attempt made
    client,           \* the request's CiteAssistClient: "none", "open", "closed"
    generated         \* what a direct call of generate_content returned

vars == <<op, pc, api_key, enabled, request, raw_results, chunks_data, evaluations,
          responses, filtered_data, rank_input, rank_response, ranked_data, chunks,
          format_response, formatted_output, raised, response, calls, attempts, client,
          generated>>

---------------------------------------------------------------------------
(* Bounds of the model *)

MaxChunks == 2    \* longest chunk list handed directly to an agent
MaxRaw == 2       \* most results the collaborator returns
MaxResults == 2   \* largest max_results of a request
MaxIds == 2       \* longest ranked_ids list the model answers with

---------------------------------------------------------------------------
(* Python values *)

None == [py |-> "None"]
Pending == [py |-> "pending"]
NoCall == [py |-> "no call"]
EmptyDict == << >>

Get(d, k, default) == IF k \in DOMAIN d THEN d[k] ELSE default
Put(d, k, v) == [x \in DOMAIN d \cup {k} |-> IF x = k THEN v ELSE d[x]]

IsDict(v) == "py" \notin DOMAIN v
IsException(v) == "exc" \in DOMAIN v
Exception(name) == [exc |-> name]

Min(a, b) == IF a <= b THEN a ELSE b
Max(a, b) == IF a >= b THEN a ELSE b

Range(s) == {s[i] : i \in 1..Len(s)}
Take(s, n) == SubSeq(s, 1, Min(n, Len(s)))

DistinctSeqs(S, n) ==
    {s \in UNION {[1..k -> S] : k \in 0..n} :
        \A i, j \in 1..Len(s) : i # j => s[i] # s[j]}

---------------------------------------------------------------------------
(* Input data *)

FullMetadata(i) ==
    [title |-> "Title" \o ToString(i), authors |-> [py |-> "list"],
     year |-> 2020 + i, citation |-> "Cite" \o ToString(i)]

\* Chunk dicts as callers hand them to filter and rank: a complete one, the bare
\* shape the unit tests use (no score, empty metadata), one whose metadata is None
\* (chunk.get('metadata', {}) then returns None), and another complete one.
ChunkPool ==
    { [chunk_id |-> "c1", text |-> "text1", metadata |-> FullMetadata(1),
       source_key |-> "k1", score |-> 90],
      [text |-> "text2", metadata |-> EmptyDict],
      [chunk_id |-> "c3", text |-> "text3", metadata |-> None,
       source_key |-> "k3", score |-> 40],
      [chunk_id |-> "c4", text |-> "text4", metadata |-> FullMetadata(4),
       source_key |-> "k4", score |-> 70] }

ChunkLists == DistinctSeqs(ChunkPool, MaxChunks)

\* min_relevance / threshold values: 0.0, 0.5 and the default 0.7
Thresholds == {0, 50, 70}

---------------------------------------------------------------------------
(* BaseAgent *)

\* an agent that takes itself for enabled whatever the settings hold
AgentAlwaysEnabled(key) == TRUE

\* base.py lines 27-35: enabled is True iff the API key setting is non-empty
AgentEnabled(key) == key # ""

\* get_filter_agent / get_rank_agent / get_format_agent each build their agent
\* from the same settings object before the entry point runs; for a request,
\* get_cite_assist_client builds the request's client as well
ConstructAgents ==
    /\ pc = "construct"
    /\ enabled' = [a \in {"filter", "rank", "format"} |-> AgentEnabled(api_key)]
    /\ client' = IF op = "search" THEN "open" ELSE client
    /\ pc' = op
    /\ UNCHANGED <<op, api_key, request, raw_results, chunks_data, evaluations,
                   responses, filtered_data, rank_input, rank_response, ranked_data,
                   chunks, format_response, formatted_output, raised, response,
                   calls, attempts, generated>>

\* where control goes when a stage returns or lets an exception escape
AfterStage(next) == IF op = "search" THEN next ELSE "done"
AfterRaise == IF op = "search" THEN "error" ELSE "done"

Called(agent) == [calls EXCEPT ![agent] = @ + 1]

\* a stage's record of what the model answered ends with the call when routes.py
\* made it; after a direct call it stays, to be inspected
Local(v, gone) == IF op = "search" THEN gone ELSE v

\* what a remote call gives generate_content to return: None when it raised,
\* else the response's text
GenerateResponses == {None, [text |-> "empty"], [text |-> "plain"]}

generateUnchanged ==
    UNCHANGED <<op, api_key, enabled, request, raw_results, chunks_data, evaluations,
                responses, filtered_data, rank_input, rank_response, ranked_data,
                chunks, format_response, formatted_output, raised, response, attempts,
                client>>

\* base.py lines 53-55, called directly on agent a: None, nothing is sent
GenerateDisabled(a) ==
    /\ pc = "generate"
    /\ ~enabled[a]
    /\ generated' = None
    /\ pc' = "done"
    /\ UNCHANGED calls
    /\ generateUnchanged

\* base.py lines 57-70, called directly on agent a: one remote call
GenerateCall(a) ==
    /\ pc = "generate"
    /\ enabled[a]
    /\ \E resp \in GenerateResponses : generated' = resp
    /\ calls' = Called(a)
    /\ pc' = "done"
    /\ generateUnchanged

GenerateOff == \E a \in {"filter", "rank", "format"} : GenerateDisabled(a)
GenerateOn == \E a \in {"filter", "rank", "format"} : GenerateCall(a)

---------------------------------------------------------------------------
(* FilterAgent *)

Num(n) == [py |-> "float", v |-> n]

\* confidence values the model may answer with: below 0, in range, above 1
Confidences == {-20, 70, 130}

\* JSON values a filter answer may parse to
FilterJson ==
    {[relevant |-> r, confidence |-> Num(c), reasoning |-> "why"] :
        r \in BOOLEAN, c \in Confidences}
    \cup {[relevant |-> r, confidence |-> Num(c)] : r \in BOOLEAN, c \in Confidences}
    \cup {[relevant |-> TRUE, reasoning |-> "why"],
          [confidence |-> Num(90), reasoning |-> "why"],
          [relevant |-> TRUE, confidence |-> [py |-> "str"], reasoning |-> "why"],
          [py |-> "list"]}

\* what generate_content returns: None (the remote call failed), or a text that is
\* empty, is not JSON, or parses (code fences removed) to a JSON value
TextResponses(json) ==
    {None, [text |-> "empty"], [text |-> "invalid"]}
    \cup {[text |-> "json", value |-> v] : v \in json}

FilterResponses == TextResponses(FilterJson)

\* the confidence taken as the model gave it
Unclamped(c) == c

\* filter.py line 163
Clamp(c) == Max(0, Min(100, c))

DefaultKeep(reason) == [relevant |-> TRUE, confidence |-> 50, reasoning |-> reason]

\* filter.py lines 98-101: metadata.get raises AttributeError when metadata is not a dict;
\* this is outside the try block, so the task itself raises
PromptRaises(chunk) == ~IsDict(Get(chunk, "metadata", EmptyDict))

\* filter.py lines 127-182, from the response on
evaluate_chunk(chunk, resp) ==
    IF resp = None THEN DefaultKeep("Error in evaluation - defaulted to keeping chunk")
    ELSE IF resp.text = "empty"
    THEN DefaultKeep("Error in evaluation - defaulted to keeping chunk")
    ELSE IF resp.text = "invalid" THEN DefaultKeep("JSON parse error")
    ELSE LET result == resp.value IN
         IF ~IsDict(result) THEN DefaultKeep("Error in evaluation")
         ELSE IF "relevant" \notin DOMAIN result \/ "confidence" \notin DOMAIN result
         THEN DefaultKeep("Error in evaluation")
         ELSE IF result.confidence.py # "float" THEN DefaultKeep("Error in evaluation")
         ELSE Put(result, "confidence", Clamp(result.confidence.v))

\* filter.py lines 58-64: the chunk kept after its evaluation raised
KeepOnException(chunk) ==
    Put(Put(chunk, "agent_filtered", FALSE), "relevance_score", Get(chunk, "score", 50))

\* filter.py line 66
Passes(evaluation, threshold) ==
    evaluation.relevant /\ evaluation.confidence >= threshold

\* filter.py lines 67-70, for an evaluation that has its reasoning
KeepRelevant(chunk, evaluation) ==
    Put(Put(Put(chunk, "agent_filtered", TRUE),
            "relevance_score", evaluation.confidence),
        "filter_reasoning", evaluation.reasoning)

\* filter.py lines 55-78: the loop over zip(chunks, evaluations); evaluation['reasoning']
\* raises KeyError on a passing evaluation that has no reasoning
RECURSIVE FilterLoop(_, _, _, _, _)
FilterLoop(cs, evs, threshold, i, acc) ==
    IF i > Len(cs) THEN [raised |-> "", out |-> acc]
    ELSE IF IsException(evs[i])
    THEN FilterLoop(cs, evs, threshold, i + 1, Append(acc, KeepOnException(cs[i])))
    ELSE IF Passes(evs[i], threshold)
    THEN IF "reasoning" \in DOMAIN evs[i]
         THEN FilterLoop(cs, evs, threshold, i + 1,
                         Append(acc, KeepRelevant(cs[i], evs[i])))
         ELSE [raised |-> "KeyError", out |-> acc]
    ELSE FilterLoop(cs, evs, threshold, i + 1, acc)

\* a disabled filter that still stamps the chunks it lets through
FilterDisabledMarks(cs) == [i \in 1..Len(cs) |-> Put(cs[i], "agent_filtered", FALSE)]

\* filter.py lines 37-39
FilterDisabledResult(cs) == cs

filterUnchanged ==
    UNCHANGED <<op, api_key, enabled, request, raw_results, chunks_data, rank_input,
                rank_response, ranked_data, chunks, format_response, formatted_output,
                response, attempts, client, generated>>

FilterDisabled ==
    /\ pc = "filter"
    /\ ~enabled.filter
    /\ filtered_data' = FilterDisabledResult(chunks_data)
    /\ pc' = AfterStage("limit")
    /\ UNCHANGED <<evaluations, responses, raised, calls>>
    /\ filterUnchanged

\* filter.py lines 41-42
FilterEmpty ==
    /\ pc = "filter"
    /\ enabled.filter
    /\ chunks_data = << >>
    /\ filtered_data' = << >>
    /\ pc' = AfterStage("limit")
    /\ UNCHANGED <<evaluations, responses, raised, calls>>
    /\ filterUnchanged

\* filter.py lines 46-52: one coroutine per chunk, handed to asyncio.gather
FilterSpawn ==
    /\ pc = "filter"
    /\ enabled.filter
    /\ chunks_data # << >>
    /\ evaluations' = [i \in 1..Len(chunks_data) |-> Pending]
    /\ responses' = [i \in 1..Len(chunks_data) |-> Pending]
    /\ pc' = "gather"
    /\ UNCHANGED <<filtered_data, raised, calls>>
    /\ filterUnchanged

\* a gather that cancels the tasks still running when one task's call fails
EvaluateChunkCancelling(i) ==
    /\ pc = "gather"
    /\ evaluations[i] = Pending
    /\ ~PromptRaises(chunks_data[i])
    /\ \E resp \in FilterResponses :
          /\ responses' = [responses EXCEPT ![i] = Local(resp, Pending)]
          /\ evaluations' =
                [k \in 1..Len(evaluations) |->
                    IF k = i THEN evaluate_chunk(chunks_data[i], resp)
                    ELSE IF resp = None /\ evaluations[k] = Pending
                    THEN Exception("CancelledError")
                    ELSE evaluations[k]]
    /\ calls' = Called("filter")
    /\ UNCHANGED <<pc, filtered_data, raised>>
    /\ filterUnchanged

\* one task runs to completion; the tasks complete in any order
EvaluateChunk(i) ==
    /\ pc = "gather"
    /\ evaluations[i] = Pending
    /\ ~PromptRaises(chunks_data[i])
    /\ \E resp \in FilterResponses :
          /\ responses' = [responses EXCEPT ![i] = Local(resp, Pending)]
          /\ evaluations' = [evaluations EXCEPT ![i] = evaluate_chunk(chunks_data[i], resp)]
    /\ calls' = Called("filter")
    /\ UNCHANGED <<pc, filtered_data, raised>>
    /\ filterUnchanged

\* a task that raises before it reaches generate_content; return_exceptions=True
\* puts the exception in its slot
EvaluateChunkRaises(i) ==
    /\ pc = "gather"
    /\ evaluations[i] = Pending
    /\ PromptRaises(chunks_data[i])
    /\ evaluations' = [evaluations EXCEPT ![i] = Exception("AttributeError")]
    /\ responses' = [responses EXCEPT ![i] = NoCall]
    /\ UNCHANGED <<pc, filtered_data, raised, calls>>
    /\ filterUnchanged

Gathered == \A i \in 1..Len(evaluations) : evaluations[i] # Pending

\* filter.py lines 52-78 once gather has returned
FilterJoin ==
    /\ pc = "gather"
    /\ Gathered
    /\ LET r == FilterLoop(chunks_data, evaluations, request.min_relevance, 1, << >>) IN
          /\ r.raised = ""
          /\ filtered_data' = r.out
    /\ evaluations' = Local(evaluations, << >>)
    /\ responses' = Local(responses, << >>)
    /\ pc' = AfterStage("limit")
    /\ UNCHANGED <<raised, calls>>
    /\ filterUnchanged

FilterJoinRaises ==
    /\ pc = "gather"
    /\ Gathered
    /\ LET r == FilterLoop(chunks_data, evaluations, request.min_relevance, 1, << >>) IN
          /\ r.raised # ""
          /\ raised' = r.raised
    /\ evaluations' = Local(evaluations, << >>)
    /\ responses' = Local(responses, << >>)
    /\ pc' = AfterRaise
    /\ UNCHANGED <<filtered_data, calls>>
    /\ filterUnchanged

Evaluate == \E i \in 1..Len(evaluations) : EvaluateChunk(i)
EvaluateRaises == \E i \in 1..Len(evaluations) : EvaluateChunkRaises(i)

---------------------------------------------------------------------------
(* RankAgent *)

PyList(items) == [py |-> "list", items |-> items]

\* ids the model may put in ranked_ids: below -N (IndexError), negative (Python
\* indexes from the end), valid, and past the end
IdValues == {-9, -1, 0, 1, 2}

IdLists == UNION {[1..k -> IdValues] : k \in 0..MaxIds}

\* JSON values a rank answer may parse to
RankJson ==
    {[ranked_ids |-> PyList(ids), reasoning |-> "why"] : ids \in IdLists}
    \cup {[reasoning |-> "why"],
          [ranked_ids |-> [py |-> "int"], reasoning |-> "why"],
          [py |-> "list"]}

RankResponses == TextResponses(RankJson)

\* original order with the enumerate index used as the rank, without the + 1
ZeroBasedOrder(cs) == [i \in 1..Len(cs) |-> Put(cs[i], "agent_rank", i - 1)]

\* rank.py lines 37-39, 95-97, 140-142, 147-149: ranks in the original order, set in place
OriginalOrder(cs) == [i \in 1..Len(cs) |-> Put(cs[i], "agent_rank", i)]

\* chunks[chunk_id] for a Python index that is in range
PyItem(cs, k) == IF k >= 0 THEN cs[k + 1] ELSE cs[Len(cs) + k + 1]

\* rank.py line 121: the rank given to the chunk at position k (1-based) of ranked_ids
RankOfPosition(k, ranked) == k

\* rank.py lines 118-124
RECURSIVE RankedLoop(_, _, _, _, _, _)
RankedLoop(cs, ids, reasoning, k, ranked, used) ==
    IF k > Len(ids) THEN [raised |-> "", out |-> ranked, used |-> used]
    ELSE IF ids[k] < Len(cs) /\ ids[k] \notin used
    THEN IF ids[k] < -Len(cs)
         THEN [raised |-> "IndexError", out |-> ranked, used |-> used]
         ELSE RankedLoop(cs, ids, reasoning, k + 1,
                  Append(ranked,
                         Put(Put(PyItem(cs, ids[k]), "agent_rank", RankOfPosition(k, ranked)),
                             "rank_reasoning", reasoning)),
                  used \cup {ids[k]})
    ELSE RankedLoop(cs, ids, reasoning, k + 1, ranked, used)

\* rank.py lines 127-132
RECURSIVE UnrankedLoop(_, _, _, _)
UnrankedLoop(cs, i, ranked, used) ==
    IF i >= Len(cs) THEN ranked
    ELSE IF i \notin used
    THEN UnrankedLoop(cs, i + 1,
             Append(ranked,
                    Put(Put(cs[i + 1], "agent_rank", Len(ranked) + 1),
                        "rank_reasoning", "Not included in agent ranking")),
             used)
    ELSE UnrankedLoop(cs, i + 1, ranked, used)

\* rank.py lines 109-135 on a parsed dict
Reorder(cs, result) ==
    LET ranked_ids == Get(result, "ranked_ids", PyList(<< >>))
        reasoning == Get(result, "reasoning", "")
    IN  IF ranked_ids.py # "list" THEN [raised |-> "TypeError", out |-> << >>]
        ELSE LET r == RankedLoop(cs, ranked_ids.items, reasoning, 1, << >>, {}) IN
             IF r.raised # "" THEN [raised |-> r.raised, out |-> << >>]
             ELSE [raised |-> "", out |-> UnrankedLoop(cs, 0, r.out, r.used)]

\* which path rank.py lines 85-149 take on a response: "ranked", or the fallback taken
RankPath(cs, resp) ==
    IF resp = None THEN "unavailable"
    ELSE IF resp.text = "empty" THEN "unavailable"
    ELSE IF resp.text = "invalid" THEN "parse error"
    ELSE IF ~IsDict(resp.value) THEN "exception"
    ELSE IF Reorder(cs, resp.value).raised # "" THEN "exception"
    ELSE "ranked"

\* rank.py lines 85-149, from the response on
rank_result(cs, resp) ==
    IF RankPath(cs, resp) = "ranked" THEN Reorder(cs, resp.value).out
    ELSE OriginalOrder(cs)

\* rank.py lines 53-62: building chunks_summary raises inside the try block
SummaryRaises(cs) == \E i \in 1..Len(cs) : PromptRaises(cs[i])

rankUnchanged ==
    UNCHANGED <<op, api_key, enabled, request, raw_results, chunks_data, evaluations,
                responses, filtered_data, rank_input, chunks, format_response,
                formatted_output, raised, response, attempts, client, generated>>

\* rank.py lines 34-39
RankDisabled ==
    /\ pc = "rank"
    /\ ~enabled.rank
    /\ ranked_data' = OriginalOrder(rank_input)
    /\ pc' = AfterStage("convert")
    /\ UNCHANGED <<rank_response, calls>>
    /\ rankUnchanged

\* rank.py lines 41-42
RankEmpty ==
    /\ pc = "rank"
    /\ enabled.rank
    /\ rank_input = << >>
    /\ ranked_data' = << >>
    /\ pc' = AfterStage("convert")
    /\ UNCHANGED <<rank_response, calls>>
    /\ rankUnchanged

\* a single chunk sent to the model like any longer list
RankSingleAsksModel ==
    /\ pc = "rank"
    /\ enabled.rank
    /\ Len(rank_input) = 1
    /\ ranked_data' = <<Put(rank_input[1], "agent_rank", 1)>>
    /\ rank_response' = None
    /\ calls' = Called("rank")
    /\ pc' = AfterStage("convert")
    /\ rankUnchanged

\* rank.py lines 44-47
RankSingle ==
    /\ pc = "rank"
    /\ enabled.rank
    /\ Len(rank_input) = 1
    /\ ranked_data' = <<Put(rank_input[1], "agent_rank", 1)>>
    /\ pc' = AfterStage("convert")
    /\ UNCHANGED <<rank_response, calls>>
    /\ rankUnchanged

\* rank.py lines 51-62, 144-149: the exception is caught before any call is made
RankSummaryRaises ==
    /\ pc = "rank"
    /\ enabled.rank
    /\ Len(rank_input) >= 2
    /\ SummaryRaises(rank_input)
    /\ ranked_data' = OriginalOrder(rank_input)
    /\ rank_response' = NoCall
    /\ pc' = AfterStage("convert")
    /\ UNCHANGED calls
    /\ rankUnchanged

\* rank.py lines 51-149: one call, then the response decides
RankCall ==
    /\ pc = "rank"
    /\ enabled.rank
    /\ Len(rank_input) >= 2
    /\ ~SummaryRaises(rank_input)
    /\ \E resp \in RankResponses :
          /\ rank_response' = Local(resp, Pending)
          /\ ranked_data' = rank_result(rank_input, resp)
    /\ calls' = Called("rank")
    /\ pc' = AfterStage("convert")
    /\ rankUnchanged

---------------------------------------------------------------------------
(* FormatAgent *)

\* A line of text: its kind, and the values printed in it
Line(kind, n, str, stars) == [kind |-> kind, n |-> n, s |-> str, stars |-> stars]

Blank == Line("blank", 0, "", << >>)
TextLine(str) == Line("text", 0, str, << >>)
Text(str) == <<TextLine(str)>>

IsBlank(line) == line.kind = "blank"

\* str.strip() on a text whose lines carry no outer whitespace of their own
RECURSIVE LStrip(_)
LStrip(lines) ==
    IF lines # << >> /\ IsBlank(Head(lines)) THEN LStrip(Tail(lines)) ELSE lines

RECURSIVE RStrip(_)
RStrip(lines) ==
    IF lines # << >> /\ IsBlank(lines[Len(lines)])
    THEN RStrip(SubSeq(lines, 1, Len(lines) - 1))
    ELSE lines

Strip(lines) == RStrip(LStrip(lines))

\* a product x in hundredths rounded to the nearest integer
RoundHundredths(x) == (x + 50) \div 100

\* int(x / 100) for a product x in hundredths: Python's int() truncates toward zero
TruncHundredths(x) == IF x >= 0 THEN x \div 100 ELSE -((-x) \div 100)

\* sym * n: the empty string when n <= 0
Repeat(sym, n) == [i \in 1..Max(n, 0) |-> sym]

\* format.py line 132 ("*" stands for the filled star, "o" for the empty one)
Filled(relevance) == TruncHundredths(relevance * 5)
Stars(relevance) == Repeat("*", Filled(relevance)) \o Repeat("o", 5 - Filled(relevance))

\* format.py lines 157-176
add_wrapper(content, count) ==
    <<Line("bar", 0, "", << >>),
      Line("banner", count, "CITATION RESULTS (n citations)", << >>),
      Line("bar", 0, "", << >>),
      Blank>>
    \o Strip(content)
    \o <<Blank,
         Line("bar", 0, "", << >>),
         TextLine("Generated by gCite - cite-assist + Gemini AI"),
         Line("bar", 0, "", << >>)>>

\* format.py lines 122-152: the lines of one chunk
BasicBlock(chunk, include_context) ==
    LET rank == Get(chunk, "agent_rank", 0)
        text == Get(chunk, "text", "")
        relevance == Get(chunk, "relevance_score", 0)
        metadata == Get(chunk, "metadata", EmptyDict)
        title == Get(metadata, "title", "Unknown")
        citation == Get(metadata, "citation", "")
    IN  <<Line("head", rank, title, << >>),
          Line("rule", 50, "", << >>),
          Line("relevance", relevance, "", Stars(relevance)),
          Blank>>
        \o (IF include_context THEN <<Line("quote", 0, text, << >>), Blank>> ELSE << >>)
        \o <<Line("citation", 0, citation, << >>),
             Blank,
             Line("rule", 50, "", << >>),
             Blank>>

RECURSIVE BasicLines(_, _)
BasicLines(cs, include_context) ==
    IF cs = << >> THEN << >>
    ELSE BasicBlock(Head(cs), include_context) \o BasicLines(Tail(cs), include_context)

\* format.py lines 103-155
format_basic(cs, style, include_context) ==
    add_wrapper(BasicLines(cs, include_context), Len(cs))

NoCitations == Text("No citations found.")

\* what generate_content returns to format: None, an empty text, or free text
FormatResponses == {None, [text |-> "empty"], [text |-> "plain"]}

AiText == Text("citations as the model formatted them")

\* format.py line 67: json.dumps raises TypeError on a value JSON cannot carry
Serializable(chunk) ==
    Get(Get(chunk, "metadata", EmptyDict), "authors", [py |-> "list"]).py = "list"

PayloadRaises(cs) == \E i \in 1..Len(cs) : ~Serializable(cs[i])

\* the fallback taken on None only: an empty text is wrapped as if it were an answer
format_result_none_only(cs, style, include_context, resp) ==
    IF resp = None THEN format_basic(cs, style, include_context)
    ELSE add_wrapper(IF resp.text = "empty" THEN << >> ELSE AiText, Len(cs))

\* format.py lines 87-96
format_result(cs, style, include_context, resp) ==
    IF resp = None THEN format_basic(cs, style, include_context)
    ELSE IF resp.text = "empty" THEN format_basic(cs, style, include_context)
    ELSE add_wrapper(AiText, Len(cs))

formatUnchanged ==
    UNCHANGED <<op, api_key, enabled, request, raw_results, chunks_data, evaluations,
                responses, filtered_data, rank_input, rank_response, ranked_data,
                chunks, raised, attempts, client, generated>>

SearchResponse(count, cs, output) ==
    [status |-> 200, results_count |-> count, chunks |-> cs, formatted_output |-> output]

\* routes.py lines 157-166: nothing is awaited between format's return and the
\* response, so a request's response is built in the step format returns in
Responded(output) == IF op = "search" THEN SearchResponse(Len(chunks), chunks, output)
                     ELSE response

\* routes.py lines 134-146: the dicts built from the Chunk objects
ChunksForFormat(cs) ==
    [i \in 1..Len(cs) |->
        [agent_rank |-> cs[i].agent_rank,
         text |-> cs[i].text,
         metadata |-> [title |-> cs[i].source.title, authors |-> cs[i].source.authors,
                       year |-> cs[i].source.year, citation |-> cs[i].source.citation],
         relevance_score |-> cs[i].relevance_score]]

\* the list format is called with: chunks itself, or the dicts routes.py builds
FormatInput == IF op = "search" THEN ChunksForFormat(chunks) ELSE chunks

\* the enabled test made before the empty test
FormatEmptyAfterEnabled ==
    /\ pc = "format"
    /\ FormatInput = << >>
    /\ formatted_output' =
          IF enabled.format THEN NoCitations
          ELSE format_basic(FormatInput, request.citation_style, request.include_context)
    /\ response' = Responded(formatted_output')
    /\ pc' = AfterStage("close")
    /\ UNCHANGED <<format_response, calls>>
    /\ formatUnchanged

\* format.py lines 34-35
FormatEmpty ==
    /\ pc = "format"
    /\ FormatInput = << >>
    /\ formatted_output' = NoCitations
    /\ response' = Responded(formatted_output')
    /\ pc' = AfterStage("close")
    /\ UNCHANGED <<format_response, calls>>
    /\ formatUnchanged

\* format.py lines 37-39
FormatDisabled ==
    /\ pc = "format"
    /\ FormatInput # << >>
    /\ ~enabled.format
    /\ formatted_output' =
          format_basic(FormatInput, request.citation_style, request.include_context)
    /\ response' = Responded(formatted_output')
    /\ pc' = AfterStage("close")
    /\ UNCHANGED <<format_response, calls>>
    /\ formatUnchanged

\* format.py lines 43-67, 98-101: the exception is caught before any call is made
FormatPayloadRaises ==
    /\ pc = "format"
    /\ FormatInput # << >>
    /\ enabled.format
    /\ PayloadRaises(FormatInput)
    /\ formatted_output' =
          format_basic(FormatInput, request.citation_style, request.include_context)
    /\ format_response' = NoCall
    /\ response' = Responded(formatted_output')
    /\ pc' = AfterStage("close")
    /\ UNCHANGED calls
    /\ formatUnchanged

\* format.py lines 103-155, called directly as test_format_basic_fallback_method does
FormatBasicCall ==
    /\ pc = "basic"
    /\ formatted_output' =
          format_basic(chunks, request.citation_style, request.include_context)
    /\ pc' = "done"
    /\ UNCHANGED <<format_response, response, calls>>
    /\ formatUnchanged

\* format.py lines 43-96: one call, then the response decides
FormatCall ==
    /\ pc = "format"
    /\ FormatInput # << >>
    /\ enabled.format
    /\ ~PayloadRaises(FormatInput)
    /\ \E resp \in FormatResponses :
          /\ format_response' = resp
          /\ formatted_output' =
                format_result(FormatInput, request.citation_style,
                              request.include_context, resp)
    /\ calls' = Called("format")
    /\ response' = Responded(formatted_output')
    /\ pc' = AfterStage("close")
    /\ formatUnchanged

---------------------------------------------------------------------------
(* CiteAssistClient.search and search_citations *)

\* cite_assist.py line 28: stop_after_attempt(3)
MaxAttempts == 3

\* the collaborator's i-th result; every field is optional to routes.py
RawResult(i) ==
    IF i % 3 = 2
    THEN [chunk_id |-> "r" \o ToString(i), text |-> "raw" \o ToString(i),
          metadata |-> FullMetadata(i)]
    ELSE [chunk_id |-> "r" \o ToString(i), text |-> "raw" \o ToString(i),
          metadata |-> FullMetadata(i), source_key |-> "k" \o ToString(i),
          score |-> IF i % 3 = 1 THEN 90 ELSE 40]

RawResults(m) == [i \in 1..m |-> RawResult(i)]

\* routes.py lines 60-68
ToChunkData(result) ==
    [chunk_id |-> Get(result, "chunk_id", ""),
     text |-> Get(result, "text", ""),
     metadata |-> Get(result, "metadata", EmptyDict),
     source_key |-> Get(result, "source_key", ""),
     score |-> Get(result, "score", 0)]

\* routes.py lines 111-128
ToChunk(chunk_data) ==
    LET metadata == Get(chunk_data, "metadata", EmptyDict) IN
    [id |-> Get(chunk_data, "chunk_id", ""),
     text |-> Get(chunk_data, "text", ""),
     source |-> [title |-> Get(metadata, "title", "Unknown"),
                 authors |-> Get(metadata, "authors", [py |-> "list"]),
                 year |-> Get(metadata, "year", 0),
                 citation |-> Get(metadata, "citation", ""),
                 item_key |-> Get(chunk_data, "source_key", None)],
     relevance_score |-> Get(chunk_data, "relevance_score", Get(chunk_data, "score", 0)),
     agent_filtered |-> Get(chunk_data, "agent_filtered", FALSE),
     agent_rank |-> Get(chunk_data, "agent_rank", 0)]

ToChunks(data) == [i \in 1..Len(data) |-> ToChunk(data[i])]

\* models.py line 43: Chunk.relevance_score is validated to lie in [0, 1]
ValidChunk(chunk) == chunk.relevance_score >= 0 /\ chunk.relevance_score <= 100

\* routes.py lines 191-203, the lines of one chunk
RoutesBlock(chunk) ==
    <<Line("head", chunk.agent_rank, chunk.source.title, << >>),
      Line("rule", 49, "", << >>),
      Line("relevance", chunk.relevance_score, "", << >>),
      Blank,
      Line("quote", 0, chunk.text, << >>),
      Blank,
      Line("citation", 0, chunk.source.citation, << >>),
      Blank,
      Line("rule", 49, "", << >>),
      Blank>>

RECURSIVE RoutesLines(_)
RoutesLines(cs) ==
    IF cs = << >> THEN << >> ELSE RoutesBlock(Head(cs)) \o RoutesLines(Tail(cs))

\* routes.py lines 176-211
routes_format_basic(cs, style) ==
    IF cs = << >> THEN NoCitations
    ELSE <<Line("bar", 0, "", << >>),
           Line("banner", Len(cs), "CITATION RESULTS (n found)", << >>),
           Line("bar", 0, "", << >>),
           Blank>>
         \o RoutesLines(cs)
         \o <<Line("bar", 0, "", << >>),
              TextLine("Generated by gCite - cite-assist semantic search"),
              Line("bar", 0, "", << >>)>>

NoResultsText == Text("No results found. Try refining your query.")
NoRelevantText ==
    Text("No relevant citations found after filtering. Try broadening your query.")

ErrorResponse == [status |-> 500]

searchUnchanged ==
    UNCHANGED <<op, api_key, enabled, request, evaluations, responses, rank_response,
                format_response, raised, calls, client, generated>>

\* cite_assist.py lines 63-77: the collaborator answers with m results (the limit
\* of routes.py line 44 is sent; the model does not rely on its being honoured)
SearchSucceeds ==
    /\ pc = "search"
    /\ \E m \in 0..MaxRaw : raw_results' = RawResults(m)
    /\ attempts' = Append(attempts, "200")
    /\ pc' = "searched"
    /\ UNCHANGED <<chunks_data, filtered_data, rank_input, ranked_data, chunks,
                   formatted_output, response>>
    /\ searchUnchanged

\* a 4xx answer re-raised like a 5xx one, for the retry decorator to handle
SearchClientErrorRetried ==
    /\ pc = "search"
    /\ attempts' = Append(attempts, "4xx")
    /\ pc' = IF Len(attempts) + 1 < MaxAttempts THEN "search" ELSE "error"
    /\ UNCHANGED <<raw_results, chunks_data, filtered_data, rank_input, ranked_data,
                   chunks, formatted_output, response>>
    /\ searchUnchanged

\* cite_assist.py lines 82-89: a 4xx answer is turned into an empty list
SearchClientError ==
    /\ pc = "search"
    /\ raw_results' = << >>
    /\ attempts' = Append(attempts, "4xx")
    /\ pc' = "searched"
    /\ UNCHANGED <<chunks_data, filtered_data, rank_input, ranked_data, chunks,
                   formatted_output, response>>
    /\ searchUnchanged

\* a retry policy that stops one attempt later
SearchTransientErrorOnceMore ==
    /\ pc = "search"
    /\ \E failure \in {"timeout", "5xx"} : attempts' = Append(attempts, failure)
    /\ pc' = IF Len(attempts) + 1 < MaxAttempts + 1 THEN "search" ELSE "error"
    /\ UNCHANGED <<raw_results, chunks_data, filtered_data, rank_input, ranked_data,
                   chunks, formatted_output, response>>
    /\ searchUnchanged

\* cite_assist.py lines 27-31, 79-85: a timeout or a 5xx answer is re-raised and
\* the retry decorator tries again, or re-raises after the last attempt
SearchTransientError ==
    /\ pc = "search"
    /\ \E failure \in {"timeout", "5xx"} : attempts' = Append(attempts, failure)
    /\ pc' = IF Len(attempts) + 1 < MaxAttempts THEN "search" ELSE "error"
    /\ UNCHANGED <<raw_results, chunks_data, filtered_data, rank_input, ranked_data,
                   chunks, formatted_output, response>>
    /\ searchUnchanged

\* the empty result list handed on to the format stage, whose sentinel is returned
RespondNoResultsViaFormat ==
    /\ pc = "searched"
    /\ raw_results = << >>
    /\ response' = SearchResponse(0, << >>, NoCitations)
    /\ pc' = "close"
    /\ UNCHANGED <<raw_results, chunks_data, filtered_data, rank_input, ranked_data,
                   chunks, formatted_output, attempts>>
    /\ searchUnchanged

\* routes.py lines 50-57
RespondNoResults ==
    /\ pc = "searched"
    /\ raw_results = << >>
    /\ response' = SearchResponse(0, << >>, NoResultsText)
    /\ pc' = "close"
    /\ UNCHANGED <<raw_results, chunks_data, filtered_data, rank_input, ranked_data,
                   chunks, formatted_output, attempts>>
    /\ searchUnchanged

\* routes.py lines 59-78: filter is called.  The attempts belong to the search
\* call that has returned; the request goes on without their record.
StartFilter ==
    /\ pc = "searched"
    /\ raw_results # << >>
    /\ request.filter /\ enabled.filter
    /\ chunks_data' = [i \in 1..Len(raw_results) |-> ToChunkData(raw_results[i])]
    /\ attempts' = << >>
    /\ pc' = "filter"
    /\ UNCHANGED <<raw_results, filtered_data, rank_input, ranked_data, chunks,
                   formatted_output, response>>
    /\ searchUnchanged

\* routes.py lines 59-71, 79-81
SkipFilter ==
    /\ pc = "searched"
    /\ raw_results # << >>
    /\ ~(request.filter /\ enabled.filter)
    /\ chunks_data' = [i \in 1..Len(raw_results) |-> ToChunkData(raw_results[i])]
    /\ filtered_data' = chunks_data'
    /\ attempts' = << >>
    /\ pc' = "limit"
    /\ UNCHANGED <<raw_results, rank_input, ranked_data, chunks, formatted_output,
                   response>>
    /\ searchUnchanged

\* routes.py line 84
Limited == Take(filtered_data, request.max_results)

\* an empty list after filtering answered like an empty list from the collaborator
RespondNoRelevantAsNoResults ==
    /\ pc = "limit"
    /\ Limited = << >>
    /\ filtered_data' = Limited
    /\ response' = SearchResponse(0, << >>, NoResultsText)
    /\ pc' = "close"
    /\ UNCHANGED <<raw_results, chunks_data, rank_input, ranked_data, chunks,
                   formatted_output, attempts>>
    /\ searchUnchanged

\* routes.py lines 84-93
RespondNoRelevant ==
    /\ pc = "limit"
    /\ Limited = << >>
    /\ filtered_data' = Limited
    /\ response' = SearchResponse(0, << >>, NoRelevantText)
    /\ pc' = "close"
    /\ UNCHANGED <<raw_results, chunks_data, rank_input, ranked_data, chunks,
                   formatted_output, attempts>>
    /\ searchUnchanged

\* routes.py lines 84-102: rank is called
StartRank ==
    /\ pc = "limit"
    /\ Limited # << >>
    /\ enabled.rank
    /\ filtered_data' = Limited
    /\ rank_input' = Limited
    /\ pc' = "rank"
    /\ UNCHANGED <<raw_results, chunks_data, ranked_data, chunks, formatted_output,
                   response, attempts>>
    /\ searchUnchanged

\* ranking skipped without numbering the chunks
SkipRankUnnumbered ==
    /\ pc = "limit"
    /\ Limited # << >>
    /\ ~enabled.rank
    /\ filtered_data' = Limited
    /\ ranked_data' = Limited
    /\ pc' = "convert"
    /\ UNCHANGED <<raw_results, chunks_data, rank_input, chunks, formatted_output,
                   response, attempts>>
    /\ searchUnchanged

\* routes.py lines 84-96, 103-108
SkipRank ==
    /\ pc = "limit"
    /\ Limited # << >>
    /\ ~enabled.rank
    /\ filtered_data' = Limited
    /\ ranked_data' = OriginalOrder(Limited)
    /\ pc' = "convert"
    /\ UNCHANGED <<raw_results, chunks_data, rank_input, chunks, formatted_output,
                   response, attempts>>
    /\ searchUnchanged

\* routes.py lines 110-152: the Chunk objects are built, format is called
StartFormat ==
    /\ pc = "convert"
    /\ \A i \in 1..Len(ranked_data) : ValidChunk(ToChunk(ranked_data[i]))
    /\ enabled.format
    /\ chunks' = ToChunks(ranked_data)
    /\ pc' = "format"
    /\ UNCHANGED <<raw_results, chunks_data, filtered_data, rank_input, ranked_data,
                   formatted_output, response, attempts>>
    /\ searchUnchanged

\* routes.py lines 110-131, 153-166
SkipFormat ==
    /\ pc = "convert"
    /\ \A i \in 1..Len(ranked_data) : ValidChunk(ToChunk(ranked_data[i]))
    /\ ~enabled.format
    /\ chunks' = ToChunks(ranked_data)
    /\ formatted_output' = routes_format_basic(chunks', request.citation_style)
    /\ response' = SearchResponse(Len(chunks'), chunks', formatted_output')
    /\ pc' = "close"
    /\ UNCHANGED <<raw_results, chunks_data, filtered_data, rank_input, ranked_data,
                   attempts>>
    /\ searchUnchanged

\* routes.py lines 168-173: any exception becomes one HTTP 500
RespondError ==
    /\ pc = "error"
    /\ response' = ErrorResponse
    /\ pc' = "close"
    /\ UNCHANGED <<raw_results, chunks_data, filtered_data, rank_input, ranked_data,
                   chunks, formatted_output, attempts>>
    /\ searchUnchanged

\* a dependency without the finally block: the client is closed after a
\* response only, and stays open when the request raised
CloseClientUnlessRaised ==
    /\ pc = "close"
    /\ client' = IF response.status = 200 THEN "closed" ELSE client
    /\ pc' = "done"
    /\ UNCHANGED <<op, api_key, enabled, request, raw_results, chunks_data, evaluations,
                   responses, filtered_data, rank_input, rank_response, ranked_data,
                   chunks, format_response, formatted_output, raised, response, calls,
                   attempts, generated>>

\* cite_assist.py lines 97-103: the dependency's finally block
CloseClient ==
    /\ pc = "close"
    /\ client' = "closed"
    /\ pc' = "done"
    /\ UNCHANGED <<op, api_key, enabled, request, raw_results, chunks_data, evaluations,
                   responses, filtered_data, rank_input, rank_response, ranked_data,
                   chunks, format_response, formatted_output, raised, response, calls,
                   attempts, generated>>

---------------------------------------------------------------------------
(* Initial states *)

DefaultRequest ==
    [query |-> "q", context |-> None, max_results |-> 10, citation_style |-> "APA",
     filter |-> TRUE, min_relevance |-> 70, include_context |-> TRUE]

ApiKeys == {"", "key"}

Idle ==
    /\ pc = "construct"
    /\ api_key \in ApiKeys
    /\ enabled = [a \in {"filter", "rank", "format"} |-> FALSE]
    /\ raw_results = << >>
    /\ evaluations = << >>
    /\ responses = << >>
    /\ filtered_data = << >>
    /\ rank_response = Pending
    /\ ranked_data = << >>
    /\ format_response = Pending
    /\ formatted_output = << >>
    /\ raised = ""
    /\ response = Pending
    /\ calls = [a \in {"filter", "rank", "format"} |-> 0]
    /\ attempts = << >>
    /\ client = "none"
    /\ generated = Pending

\* await agent.filter(query, context, chunks, threshold) on a fresh FilterAgent
InitFilter ==
    /\ op = "filter"
    /\ Idle
    /\ \E t \in Thresholds : request = [DefaultRequest EXCEPT !.min_relevance = t]
    /\ chunks_data \in ChunkLists
    /\ rank_input = << >>
    /\ chunks = << >>

NextFilter ==
    ConstructAgents \/ FilterDisabled \/ FilterEmpty \/ FilterSpawn \/ Evaluate
    \/ EvaluateRaises \/ FilterJoin \/ FilterJoinRaises

SpecFilter == InitFilter /\ [][NextFilter]_vars

\* await agent.rank(query, context, chunks) on a fresh RankAgent
InitRank ==
    /\ op = "rank"
    /\ Idle
    /\ request = DefaultRequest
    /\ chunks_data = << >>
    /\ rank_input \in ChunkLists
    /\ chunks = << >>

NextRank ==
    ConstructAgents \/ RankDisabled \/ RankEmpty \/ RankSingle \/ RankSummaryRaises
    \/ RankCall

SpecRank == InitRank /\ [][NextRank]_vars

\* Chunk dicts as callers hand them to format: ranked and scored, bare (every
\* default applies), one whose authors value json.dumps cannot serialise, and
\* another ranked and scored one.  The renderer is defined on all of them.
FormatPool ==
    { [agent_rank |-> 1, text |-> "text1", metadata |-> FullMetadata(1),
       relevance_score |-> 80],
      [text |-> "text2", metadata |-> EmptyDict],
      [agent_rank |-> 2, text |-> "text3",
       metadata |-> [FullMetadata(3) EXCEPT !.authors = [py |-> "set"]],
       relevance_score |-> 100],
      [agent_rank |-> 3, text |-> "text4", metadata |-> FullMetadata(4),
       relevance_score |-> 55] }

FormatLists == DistinctSeqs(FormatPool, MaxChunks)

CitationStyles == {"APA", "MLA", "Chicago", "Bluebook"}

\* await agent.format(chunks, style, include_context) on a fresh FormatAgent
InitFormat ==
    /\ op = "format"
    /\ Idle
    /\ \E st \in CitationStyles, ic \in BOOLEAN :
          request = [DefaultRequest EXCEPT !.citation_style = st, !.include_context = ic]
    /\ chunks_data = << >>
    /\ rank_input = << >>
    /\ chunks \in FormatLists

NextFormat ==
    ConstructAgents \/ FormatEmpty \/ FormatDisabled \/ FormatPayloadRaises \/ FormatCall

SpecFormat == InitFormat /\ [][NextFormat]_vars

\* relevance scores in hundredths, 0.00 to 1.00
Hundredths == 0..100

\* agent._format_basic(chunks, style, include_context) on a fresh FormatAgent, with
\* the one-chunk list of test_format_basic_fallback_method at every relevance score
InitBasic ==
    /\ op = "basic"
    /\ Idle
    /\ \E st \in CitationStyles, ic \in BOOLEAN :
          request = [DefaultRequest EXCEPT !.citation_style = st, !.include_context = ic]
    /\ chunks_data = << >>
    /\ rank_input = << >>
    /\ \E r \in Hundredths :
          chunks = <<[agent_rank |-> 1, text |-> "text1", metadata |-> FullMetadata(1),
                      relevance_score |-> r]>>

NextBasic == ConstructAgents \/ FormatBasicCall

SpecBasic == InitBasic /\ [][NextBasic]_vars

\* await agent.generate_content(prompt) on a fresh agent
InitGenerate ==
    /\ op = "generate"
    /\ Idle
    /\ request = DefaultRequest
    /\ chunks_data = << >>
    /\ rank_input = << >>
    /\ chunks = << >>

NextGenerate == ConstructAgents \/ GenerateOff \/ GenerateOn

\* the requests that pass validation (models.py lines 19-26); the citation style
\* reaches only the prompt text and stays at its default
SearchRequests ==
    {[DefaultRequest EXCEPT !.max_results = n, !.filter = f, !.min_relevance = t,
                            !.include_context = ic] :
        n \in 1..MaxResults, f \in BOOLEAN, t \in Thresholds, ic \in BOOLEAN}

\* POST /api/search
Init ==
    /\ op = "search"
    /\ Idle
    /\ request \in SearchRequests
    /\ chunks_data = << >>
    /\ rank_input = << >>
    /\ chunks = << >>

\* FilterDisabled, FilterEmpty, RankDisabled, RankEmpty, FormatEmpty and
\* FormatDisabled are not steps of a request: routes.py calls a stage only with its
\* agent enabled and a non-empty list.  EvaluateRaises, RankSummaryRaises and
\* FormatPayloadRaises are none either: the collaborator's results are well formed
\* (metadata is a dict), and the Chunk model guarantees a list as authors.
Next ==
    \/ ConstructAgents
    \/ SearchSucceeds \/ SearchClientError \/ SearchTransientError
    \/ RespondNoResults \/ StartFilter \/ SkipFilter
    \/ FilterSpawn \/ Evaluate \/ FilterJoin \/ FilterJoinRaises
    \/ RespondNoRelevant \/ StartRank \/ SkipRank
    \/ RankSingle \/ RankCall
    \/ StartFormat \/ SkipFormat
    \/ FormatCall
    \/ RespondError \/ CloseClient

Spec == Init /\ [][Next]_vars

\* every entry point: a request, or a direct call of one agent method
InitAll == Init \/ InitFilter \/ InitRank \/ InitFormat \/ InitBasic \/ InitGenerate

NextAll == Next \/ NextFilter \/ NextRank \/ NextFormat \/ NextBasic \/ NextGenerate

SpecAll == InitAll /\ [][NextAll]_vars

---------------------------------------------------------------------------
(* Properties *)

\* out is the dict in with keys added: every key of in is kept with its value
Extends(out, in) == DOMAIN in \subseteq DOMAIN out /\ \A k \in DOMAIN in : out[k] = in[k]

Occurrences(out, chunk) == Cardinality({j \in 1..Len(out) : Extends(out[j], chunk)})

Returned == pc = "done" /\ raised = ""

\* C1: a request that passed validation and got a non-empty list of well-formed
\* results from the collaborator ends with a successful response that carries a
\* formatted output, never an HTTP 500, whatever the generative service answered.
C1_NeverHardFailure ==
    (pc = "done" /\ raw_results # << >>) =>
        /\ response.status = 200
        /\ response.formatted_output # << >>

\* C2: whatever the model answered, the agent_rank values of the chunks rank
\* returns are exactly 1..N, each used once.
C2_RanksArePermutation ==
    Returned =>
        /\ \A j \in 1..Len(ranked_data) : ranked_data[j].agent_rank \in 1..Len(rank_input)
        /\ \A r \in 1..Len(rank_input) :
              Cardinality({j \in 1..Len(ranked_data) : ranked_data[j].agent_rank = r}) = 1

\* the evaluation of chunk i failed: no response, a response that does not parse,
\* one with required fields missing or unusable, or a task that raised
EvaluationFailed(i) ==
    \/ IsException(evaluations[i])
    \/ responses[i] \in {None, [text |-> "empty"], [text |-> "invalid"]}
    \/ /\ responses[i] # NoCall
       /\ responses[i] \notin {None, [text |-> "empty"], [text |-> "invalid"]}
       /\ \/ ~IsDict(responses[i].value)
          \/ "relevant" \notin DOMAIN responses[i].value
          \/ "confidence" \notin DOMAIN responses[i].value
          \/ responses[i].value.confidence.py # "float"

\* C3: with the adapter enabled, a chunk whose evaluation failed is in the list
\* filter returns, for every threshold.
C3_FailOpen ==
    (Returned /\ enabled.filter) =>
        \A i \in 1..Len(evaluations) :
            EvaluationFailed(i) => Occurrences(filtered_data, chunks_data[i]) >= 1

\* C4: rank returns the chunks it was given: as many elements as the input, each
\* input chunk exactly once.
C4_SameChunks ==
    Returned =>
        /\ Len(ranked_data) = Len(rank_input)
        /\ \A i \in 1..Len(rank_input) : Occurrences(ranked_data, rank_input[i]) = 1

\* C5: a successful response has results_count equal to the number of chunks it
\* carries, and at most max_results of them.
C5_CountWithinLimit ==
    (pc = "done" /\ response.status = 200) =>
        /\ response.results_count = Len(response.chunks)
        /\ response.results_count <= request.max_results

\* C6: with the adapter disabled, filter returns the chunks it was given, in the
\* same order, with neither agent_filtered nor relevance_score set on any, and
\* makes no adapter call.
C6_DisabledFilterIsIdentity ==
    (Returned /\ ~enabled.filter) =>
        /\ filtered_data = chunks_data
        /\ \A j \in 1..Len(filtered_data) :
              DOMAIN filtered_data[j] \cap {"agent_filtered", "relevance_score"} = {}
        /\ calls.filter = 0

C6_Witness ==
    /\ op = "filter" /\ pc = "done" /\ ~enabled.filter
    /\ Len(chunks_data) = 2 /\ Len(filtered_data) = 2

\* rank took a fallback path: adapter disabled, no usable response, a response that
\* does not parse, or an exception while ranking (summary building, a non-dict
\* answer, a ranked_ids that is no list, an id below -N)
RankFellBack ==
    \/ ~enabled.rank
    \/ /\ Len(rank_input) >= 2
       /\ \/ rank_response \in {NoCall, None, [text |-> "empty"], [text |-> "invalid"]}
          \/ /\ rank_response \notin {NoCall, None, [text |-> "empty"], [text |-> "invalid"]}
             /\ \/ ~IsDict(rank_response.value)
                \/ /\ IsDict(rank_response.value)
                   /\ "ranked_ids" \in DOMAIN rank_response.value
                   /\ \/ rank_response.value.ranked_ids.py # "list"
                      \/ /\ rank_response.value.ranked_ids.py = "list"
                         /\ \E k \in 1..Len(rank_response.value.ranked_ids.items) :
                               rank_response.value.ranked_ids.items[k] < -Len(rank_input)

\* C7: on every fallback path rank returns all N chunks in their original order
\* with agent_rank equal to the position.
C7_FallbackKeepsOrder ==
    (op = "rank" /\ Returned /\ RankFellBack) =>
        /\ Len(ranked_data) = Len(rank_input)
        /\ \A i \in 1..Len(rank_input) :
              /\ Extends(ranked_data[i], rank_input[i])
              /\ ranked_data[i].agent_rank = i

C7_Witness ==
    /\ op = "rank" /\ pc = "done" /\ enabled.rank
    /\ Len(rank_input) = 2
    /\ rank_response = [text |-> "invalid"]
    /\ calls.rank = 1

\* C8: rank on one chunk returns it with agent_rank 1, rank on no chunk returns
\* the empty list; neither makes an adapter call, enabled or not.
C8_ShortListsNeedNoCall ==
    (op = "rank" /\ Returned /\ Len(rank_input) <= 1) =>
        /\ calls.rank = 0
        /\ Len(ranked_data) = Len(rank_input)
        /\ \A i \in 1..Len(rank_input) :
              /\ Extends(ranked_data[i], rank_input[i])
              /\ ranked_data[i].agent_rank = 1

C8_Witness ==
    /\ op = "rank" /\ pc = "done" /\ enabled.rank
    /\ Len(rank_input) = 1 /\ Len(ranked_data) = 1

C10_EmptyListSentinel ==
    (op = "format" /\ pc = "done" /\ chunks = << >>) =>
        /\ formatted_output = <<[kind |-> "text", n |-> 0, s |-> "No citations found.",
                                 stars |-> << >>]>>
        /\ calls.format = 0
        /\ format_response = Pending

C10_Witness ==
    /\ op = "format" /\ pc = "done" /\ chunks = << >>
    /\ ~enabled.format
    /\ request.citation_style = "Bluebook" /\ ~request.include_context

\* the collaborator answered the request's search with no result: an empty list
\* on a success, or the empty list a 4xx answer is turned into
ZeroResults ==
    /\ op = "search"
    /\ pc \in {"searched", "close", "done"}
    /\ attempts # << >>
    /\ attempts[Len(attempts)] \in {"200", "4xx"}
    /\ raw_results = << >>

\* no list was handed to filter, rank or format, and no remote call was made
NoStageInvoked ==
    /\ chunks_data = << >> /\ evaluations = << >> /\ filtered_data = << >>
    /\ rank_input = << >> /\ rank_response = Pending /\ ranked_data = << >>
    /\ chunks = << >> /\ format_response = Pending
    /\ \A a \in DOMAIN calls : calls[a] = 0

\* C11: when the collaborator returns zero results, no filter, rank or format
\* stage is invoked and no adapter call is made, and the request ends with
\* results_count 0, no chunks and "No results found. Try refining your query.".
C11_ZeroResultsSkipStages ==
    ZeroResults =>
        /\ NoStageInvoked
        /\ pc \in {"close", "done"} =>
              response = [status |-> 200, results_count |-> 0, chunks |-> << >>,
                          formatted_output |->
                              Text("No results found. Try refining your query.")]

C11_Witness ==
    /\ ZeroResults /\ pc = "done"
    /\ attempts = <<"200">>
    /\ request.filter /\ enabled.filter

\* a request's filter stage has joined its evaluations and every one of them
\* returned relevant = false
AllIrrelevant ==
    /\ op = "search" /\ pc = "gather" /\ Gathered
    /\ \A i \in 1..Len(evaluations) :
          ~IsException(evaluations[i]) /\ ~evaluations[i].relevant

NoRelevantResponse ==
    [status |-> 200, results_count |-> 0, chunks |-> << >>,
     formatted_output |->
         Text("No relevant citations found after filtering. Try broadening your query.")]

RankAndFormatNotInvoked ==
    /\ rank_input = << >> /\ rank_response = Pending /\ ranked_data = << >>
    /\ chunks = << >> /\ format_response = Pending
    /\ calls.rank = 0 /\ calls.format = 0

\* C12: when filter ran with the adapter enabled on a non-empty list and every
\* evaluation returned relevant = false, filter returns no chunk, the request's
\* next step answers results_count 0, no chunks and the "No relevant citations
\* found after filtering" message, which is not the message for an empty
\* collaborator answer, and neither rank nor format has been invoked.
C12_AllIrrelevantEndsEmpty ==
    /\ [][AllIrrelevant => (pc' = "limit" /\ filtered_data' = << >>)]_vars
    /\ [][(op = "search" /\ pc = "limit" /\ filtered_data = << >>) =>
              (pc' = "close" /\ response' = NoRelevantResponse)]_vars
    /\ [](response = NoRelevantResponse =>
              /\ RankAndFormatNotInvoked
              /\ response.formatted_output #
                     Text("No results found. Try refining your query."))

C12_Witness ==
    /\ op = "search" /\ pc = "done"
    /\ request.filter /\ enabled.filter /\ request.min_relevance = 0
    /\ Len(raw_results) = 2 /\ calls.filter = 2
    /\ response = NoRelevantResponse

\* C13: with the adapter disabled, for either filter flag and M >= 1 collaborator
\* results, the response carries exactly the first min(M, max_results) of them in
\* their original order, with agent_rank 1..k in that order and agent_filtered
\* false on each.
C13_DisabledKeepsOrder ==
    (op = "search" /\ pc = "done" /\ raw_results # << >>
       /\ \A a \in DOMAIN enabled : ~enabled[a]) =>
        /\ response.status = 200
        /\ Len(response.chunks) =
              (IF Len(raw_results) <= request.max_results THEN Len(raw_results)
               ELSE request.max_results)
        /\ response.results_count = Len(response.chunks)
        /\ \A i \in 1..Len(response.chunks) :
              /\ response.chunks[i].id = raw_results[i].chunk_id
              /\ response.chunks[i].text = raw_results[i].text
              /\ response.chunks[i].agent_rank = i
              /\ response.chunks[i].agent_filtered = FALSE

C13_Witness ==
    /\ op = "search" /\ pc = "done" /\ api_key = ""
    /\ request.filter /\ request.max_results = 1
    /\ Len(raw_results) = 2
    /\ response.status = 200 /\ Len(response.chunks) = 1

\* C14: an attempt answered with a 4xx is the last attempt of the search: search
\* returns the empty list, and the request ends with the "no results" response,
\* not with an HTTP 500.
C14_ClientErrorNotRetried ==
    op = "search" =>
        \A k \in 1..Len(attempts) :
            attempts[k] = "4xx" =>
                /\ k = Len(attempts)
                /\ pc \in {"searched", "close", "done"}
                /\ raw_results = << >>
                /\ pc \in {"close", "done"} =>
                      /\ response.status = 200
                      /\ response.results_count = 0
                      /\ response.chunks = << >>
                      /\ response.formatted_output =
                             Text("No results found. Try refining your query.")

C14_Witness ==
    /\ op = "search" /\ pc = "done"
    /\ attempts = <<"timeout", "4xx">>
    /\ response.status = 200

\* the last attempt made ended in a timeout or a 5xx answer
LastAttemptFailed ==
    attempts # << >> /\ attempts[Len(attempts)] \in {"timeout", "5xx"}

\* C15: search makes at most 3 attempts; every attempt before the last one ended
\* in a timeout or a 5xx; after such a failure with fewer than 3 attempts made the
\* request is about to make another attempt; a success ends the retrying; after 3
\* failed attempts no stage is invoked and the request ends with one HTTP 500
\* carrying no chunks.
C15_AtMostThreeAttempts ==
    /\ [](op = "search" =>
            /\ Len(attempts) <= 3
            /\ \A k \in 1..(Len(attempts) - 1) : attempts[k] \in {"timeout", "5xx"}
            /\ pc = "search" => Len(attempts) < 3
            /\ (LastAttemptFailed /\ Len(attempts) < 3) => pc = "search"
            /\ (attempts # << >> /\ attempts[Len(attempts)] = "200") =>
                  pc \in {"searched", "close", "done"}
            /\ (LastAttemptFailed /\ Len(attempts) = 3) =>
                  /\ pc \in {"error", "close", "done"}
                  /\ NoStageInvoked
                  /\ pc = "error" => response = Pending
                  /\ pc \in {"close", "done"} => response = [status |-> 500])
    /\ [][(op = "search" /\ pc = "search") => Len(attempts') = Len(attempts) + 1]_vars
    /\ [][response # Pending => response' = response]_vars

C15_Witness ==
    /\ op = "search" /\ pc = "done"
    /\ attempts = <<"timeout", "5xx", "timeout">>
    /\ response = [status |-> 500]

\* C16: once constructed, an agent is enabled iff the API key is configured; a
\* disabled agent has made no remote call, through a stage or through a direct
\* generate_content; and each entry point ends with its fallback result:
\* generate_content with None, filter with its input, rank with the original
\* order numbered 1..N, format with the basic rendering, a request with the
\* collaborator's chunks rendered by the route's own basic renderer.
C16_DisabledMakesNoCall ==
    /\ pc # "construct" => \A a \in DOMAIN enabled : enabled[a] <=> (api_key # "")
    /\ \A a \in DOMAIN enabled : ~enabled[a] => calls[a] = 0
    /\ (pc = "done" /\ raised = "" /\ api_key = "") =>
          /\ op = "generate" => generated = [py |-> "None"]
          /\ op = "filter" => filtered_data = chunks_data
          /\ op = "rank" =>
                /\ Len(ranked_data) = Len(rank_input)
                /\ \A i \in 1..Len(rank_input) :
                      /\ Extends(ranked_data[i], rank_input[i])
                      /\ ranked_data[i].agent_rank = i
          /\ (op = "format" /\ chunks # << >>) =>
                formatted_output =
                    format_basic(chunks, request.citation_style, request.include_context)
          /\ (op = "search" /\ response.status = 200 /\ raw_results # << >>) =>
                /\ \A i \in 1..Len(response.chunks) :
                      /\ response.chunks[i].id = raw_results[i].chunk_id
                      /\ response.chunks[i].agent_rank = i
                /\ response.formatted_output =
                       routes_format_basic(response.chunks, request.citation_style)

C16_Witness ==
    /\ op = "search" /\ pc = "done" /\ api_key = ""
    /\ request.filter
    /\ response.status = 200
    /\ Len(response.chunks) = 2
    /\ \A a \in DOMAIN calls : calls[a] = 0

\* C17: a chunk whose evaluation failed and that filter returns carries
\* agent_filtered = False and a relevance_score of 0.5 or of its prior similarity
\* score.
C17_FailOpenFlags ==
    (op = "filter" /\ Returned /\ enabled.filter) =>
        \A i \in 1..Len(evaluations) :
            EvaluationFailed(i) =>
                \A j \in 1..Len(filtered_data) :
                    Extends(filtered_data[j], chunks_data[i]) =>
                        /\ filtered_data[j].agent_filtered = FALSE
                        /\ filtered_data[j].relevance_score \in
                               {50, Get(chunks_data[i], "score", 50)}

\* the model answered chunk i's evaluation with a verdict that parses and has
\* relevant, a numeric confidence and reasoning
WellFormedVerdict(i) ==
    /\ "text" \in DOMAIN responses[i]
    /\ responses[i].text = "json"
    /\ IsDict(responses[i].value)
    /\ {"relevant", "confidence", "reasoning"} \subseteq DOMAIN responses[i].value
    /\ responses[i].value.confidence.py = "float"

\* the confidence of chunk i's verdict brought into [0, 1]
ClampedConfidence(i) ==
    LET c == responses[i].value.confidence.v IN
    IF c < 0 THEN 0 ELSE IF c > 100 THEN 100 ELSE c

\* C18: with the adapter enabled, a chunk with a well-formed verdict is returned
\* iff relevant is true and the confidence clamped to [0, 1] reaches the
\* threshold; a returned one carries agent_filtered = True and the clamped
\* confidence, which lies in [0, 1], as relevance_score.
C18_KeepIffRelevantAndConfident ==
    (op = "filter" /\ Returned /\ enabled.filter) =>
        \A i \in 1..Len(evaluations) :
            WellFormedVerdict(i) =>
                /\ Occurrences(filtered_data, chunks_data[i]) =
                      (IF /\ responses[i].value.relevant
                          /\ ClampedConfidence(i) >= request.min_relevance
                       THEN 1 ELSE 0)
                /\ \A j \in 1..Len(filtered_data) :
                      Extends(filtered_data[j], chunks_data[i]) =>
                          /\ filtered_data[j].agent_filtered = TRUE
                          /\ filtered_data[j].relevance_score = ClampedConfidence(i)
                          /\ filtered_data[j].relevance_score \in 0..100

C18_Witness ==
    /\ op = "filter" /\ pc = "done" /\ raised = "" /\ enabled.filter
    /\ request.min_relevance = 0
    /\ Len(chunks_data) = 2 /\ Len(filtered_data) = 1
    /\ WellFormedVerdict(1) /\ responses[1].value.relevant
    /\ responses[1].value.confidence.v = -20
    /\ WellFormedVerdict(2) /\ ~responses[2].value.relevant
    /\ filtered_data[1].relevance_score = 0

\* the position in the input list of the chunk returned at position j
InputIndex(j) ==
    CHOOSE i \in 1..Len(chunks_data) : Extends(filtered_data[j], chunks_data[i])

\* C19: while the evaluations run, each step completes one task and leaves every
\* other slot as it was, so no task is cancelled by a failing or a slow sibling;
\* when filter returns with the adapter enabled, every evaluation has completed,
\* the returned list is a subsequence of the input in input order, and each chunk
\* was kept, dropped and annotated by its own evaluation, whatever the order the
\* tasks completed in.
C19_JoinKeepsInputOrder ==
    /\ [][(pc = "gather" /\ pc' = "gather") =>
              \E i \in 1..Len(evaluations) :
                  /\ evaluations[i] = Pending /\ evaluations'[i] # Pending
                  /\ \A k \in 1..Len(evaluations) \ {i} :
                        evaluations'[k] = evaluations[k]]_vars
    /\ [](\A i \in 1..Len(evaluations) :
              evaluations[i] # [exc |-> "CancelledError"])
    /\ []((op = "filter" /\ Returned /\ enabled.filter) =>
            /\ Len(evaluations) = Len(chunks_data)
            /\ \A i \in 1..Len(evaluations) : evaluations[i] # Pending
            /\ \A j \in 1..Len(filtered_data) :
                  \E i \in 1..Len(chunks_data) : Extends(filtered_data[j], chunks_data[i])
            /\ \A j, k \in 1..Len(filtered_data) :
                  j < k => InputIndex(j) < InputIndex(k)
            /\ \A i \in 1..Len(chunks_data) :
                  Occurrences(filtered_data, chunks_data[i]) =
                      (IF \/ IsException(evaluations[i])
                          \/ /\ evaluations[i].relevant
                             /\ evaluations[i].confidence >= request.min_relevance
                       THEN 1 ELSE 0)
            /\ \A j \in 1..Len(filtered_data) :
                  LET ev == evaluations[InputIndex(j)] IN
                  IF IsException(ev) THEN filtered_data[j].agent_filtered = FALSE
                  ELSE /\ filtered_data[j].relevance_score = ev.confidence
                       /\ filtered_data[j].filter_reasoning = ev.reasoning)

C19_Witness ==
    /\ op = "filter" /\ pc = "gather"
    /\ Len(chunks_data) = 2
    /\ evaluations[1] = Pending
    /\ responses[2] = [py |-> "None"]
    /\ evaluations[2] # Pending

\* the ids of a list that are valid indices of a list of n chunks, in list order,
\* each at its first occurrence only
RECURSIVE NamedIndices(_, _, _, _)
NamedIndices(ids, n, k, acc) ==
    IF k > Len(ids) THEN acc
    ELSE IF ids[k] \in 0..(n - 1) /\ ids[k] \notin {acc[x] : x \in 1..Len(acc)}
    THEN NamedIndices(ids, n, k + 1, Append(acc, ids[k]))
    ELSE NamedIndices(ids, n, k + 1, acc)

\* acc followed by the indices below n it does not hold, in increasing order
RECURSIVE ThenUnreferenced(_, _, _)
ThenUnreferenced(n, i, acc) ==
    IF i >= n THEN acc
    ELSE IF i \in {acc[x] : x \in 1..Len(acc)} THEN ThenUnreferenced(n, i + 1, acc)
    ELSE ThenUnreferenced(n, i + 1, Append(acc, i))

ReconstructedOrder(ids, n) == ThenUnreferenced(n, 0, NamedIndices(ids, n, 1, << >>))

\* rank got an answer that parses to a dict whose ranked_ids, if any, is a list
ParsedRanking ==
    /\ op = "rank" /\ Returned /\ enabled.rank /\ Len(rank_input) >= 2
    /\ "text" \in DOMAIN rank_response
    /\ rank_response.text = "json"
    /\ IsDict(rank_response.value)
    /\ "ranked_ids" \in DOMAIN rank_response.value =>
          rank_response.value.ranked_ids.py = "list"

\* C20: on a parsed ranking, rank returns the chunks named by ranked_ids in list
\* order, skipping every id that is no valid index and every repeated id, then
\* the chunks never referenced in their original order.
C20_ReconstructionOrder ==
    ParsedRanking =>
        LET ids == IF "ranked_ids" \in DOMAIN rank_response.value
                   THEN rank_response.value.ranked_ids.items ELSE << >>
            order == ReconstructedOrder(ids, Len(rank_input))
        IN  /\ Len(ranked_data) = Len(order)
            /\ \A j \in 1..Len(order) : Extends(ranked_data[j], rank_input[order[j] + 1])

\* the star rating printed in the relevance line of a one-chunk rendering
StarsLine ==
    LET k == CHOOSE k \in 1..Len(formatted_output) :
                 formatted_output[k].kind = "relevance"
    IN  formatted_output[k].stars

\* C21: the basic renderer prints, for a relevance score r in [0, 1], floor(r * 5)
\* filled stars followed by the empty ones that make 5 symbols in all; 0.8 gives
\* 4 filled and 1 empty, 1.0 gives 5 filled, 0.0 gives none.
C21_StarsAreFloorOfFive ==
    (op = "basic" /\ pc = "done") =>
        LET r == chunks[1].relevance_score
            filled == (r * 5) \div 100
        IN  /\ Len(StarsLine) = 5
            /\ \A k \in 1..5 : StarsLine[k] = (IF k <= filled THEN "*" ELSE "o")
            /\ r = 80 => StarsLine = <<"*", "*", "*", "*", "o">>
            /\ r = 100 => StarsLine = <<"*", "*", "*", "*", "*">>
            /\ r = 0 => StarsLine = <<"o", "o", "o", "o", "o">>

C21_Witness ==
    /\ op = "basic" /\ pc = "done"
    /\ chunks[1].relevance_score = 59
    /\ StarsLine = <<"*", "*", "o", "o", "o">>

\* C22: a request served with the adapter disabled carries as formatted_output
\* what the format stage's basic renderer gives for the chunks of the response
\* and the request's include_context: a 5-symbol star rating in every block, and
\* the chunk text iff include_context is set.
C22_DisabledOutputIsBasicRenderer ==
    (op = "search" /\ pc = "done" /\ ~enabled.format
       /\ response.status = 200 /\ response.chunks # << >>) =>
        response.formatted_output =
            format_basic(ChunksForFormat(response.chunks), request.citation_style,
                         request.include_context)

\* C23: a request's client is opened once and closed once, in that order, and
\* never reopened; every request that has finished, with a response, with an
\* early empty response or with an error, has its client closed, and no client
\* is closed while the request is still running.
C23_ClientClosedOnce ==
    /\ [][client' # client =>
              \/ client = "none" /\ client' = "open"
              \/ client = "open" /\ client' = "closed" /\ pc = "close" /\ pc' = "done"]_vars
    /\ [](op = "search" =>
            /\ pc = "done" => client = "closed"
            /\ pc \notin {"construct", "done"} => client = "open")

C23_Witness ==
    /\ op = "search" /\ pc = "done"
    /\ raised = "KeyError" /\ response = [status |-> 500]
    /\ client = "closed"

====
